--------------------------- MODULE Spec2Model ---------------------------
(***************************************************************************)
(* A model of the bevy_obj asset loader.  Three builds of the loader are   *)
(* in the source tree and all three are modelled, selected by `variant':   *)
(*   "scene"   src/loader/scene.rs                                         *)
(*   "legacy"  src/loader.rs with the cargo feature "scene"                *)
(*   "mesh"    src/loader.rs without the cargo feature "scene"             *)
(* One behaviour of the model is one call of AssetLoader::load.  The OBJ   *)
(* grammar decoder (tobj), the byte source (AssetIo) and the image codec   *)
(* are external: their outcomes are chosen by the environment at the step  *)
(* that consumes them.  Strings are sequences of one-character strings so  *)
(* that labels and file extensions are computed, not looked up.            *)
(***************************************************************************)
EXTENDS Integers, Sequences, FiniteSets, TLC

VARIABLES
    variant,         \* which build of the loader runs
    pc,              \* position of the load future
    models,          \* obj.0: Vec<tobj::Model>
    materials,       \* obj.1 unwrapped: Vec<tobj::Material>
    mat_idx,         \* materials loop counter (1-based position in `materials')
    slot,            \* which texture of the current material is being resolved
    material,        \* the StandardMaterial under construction
    mat_handles,     \* scene.rs: Vec<Handle<StandardMaterial>>
    labeled_assets,  \* LoadContext::labeled_assets: label -> asset
    world,           \* the bevy World: a sequence of entities
    model_idx,       \* models loop counter (1-based position in `models')
    mesh_handle,     \* handle of the mesh registered for the current model
    merged,          \* mesh build: the four accumulating vectors
    default_asset,   \* LoadContext::set_default_asset
    err,             \* the Err returned by load, if any
    log              \* history: every observable operation, in order

vars == << variant, pc, models, materials, mat_idx, slot, material, mat_handles,
           labeled_assets, world, model_idx, mesh_handle, merged, default_asset,
           err, log >>

-----------------------------------------------------------------------------
(* Bounds of the input space. *)

MaxMaterials == 2

MaxModels == 2

MaxItems == 3

MaxVerts == 2

-----------------------------------------------------------------------------
(* Strings. *)

DigitChar == << "0", "1", "2", "3", "4", "5", "6", "7", "8", "9" >>

RECURSIVE to_string(_)
to_string(n) ==
    IF n < 10 THEN << DigitChar[n + 1] >>
    ELSE to_string(n \div 10) \o << DigitChar[(n % 10) + 1] >>

scene_material_label(idx) == << "M", "a", "t", "e", "r", "i", "a", "l" >> \o to_string(idx)

scene_mesh_label(idx) == << "M", "e", "s", "h" >> \o to_string(idx)

legacy_material_label(name) == << "M", "a", "t", "e", "r", "i", "a", "l" >> \o name

legacy_mesh_label(name) == << "M", "e", "s", "h" >> \o name

texture_label(name) == << "T", "e", "x", "t", "u", "r", "e" >> \o name

(* std::path::Path::extension of a file name without directory separators: *)
(* None (here <<>> with has = FALSE) when there is no '.', when the only   *)
(* '.' leads the name, or for "..": otherwise the text after the last '.'. *)
LastDot(s) ==
    LET dots == { i \in 1..Len(s) : s[i] = "." }
    IN  IF dots = {} THEN 0 ELSE CHOOSE i \in dots : \A j \in dots : j <= i

extension(s) ==
    LET d == LastDot(s)
    IN  IF d <= 1 \/ s = << ".", "." >>
        THEN [has |-> FALSE, ext |-> << >>]
        ELSE [has |-> TRUE, ext |-> SubSeq(s, d + 1, Len(s))]

(* The extensions Image::from_buffer maps to a codec. *)
KnownExtensions == { << "p", "n", "g" >>, << "j", "p", "g" >> }

-----------------------------------------------------------------------------
(* Handles.  A handle is the id of an asset path: the file and the label   *)
(* within it (<<>> for none).                                              *)

CtxPath == << "m", ".", "o", "b", "j" >>

NoHandle == [path |-> << >>, label |-> << >>]

(* load_context.get_handle(AssetPath::new_ref(load_context.path(), Some(label))) *)
labeled_handle(label) == [path |-> CtxPath, label |-> label]

(* load_context.get_handle(texture) with a plain string: the string is the *)
(* asset path, with no label.                                              *)
path_handle(texture) == [path |-> texture, label |-> << >>]

-----------------------------------------------------------------------------
(* Meshes.  A vertex attribute is modelled by its number of entries; the   *)
(* index buffer is kept in full.                                           *)

(* slice::chunks_exact(n).count() *)
chunks_exact(len, n) == len \div n

(* Mesh::new(PrimitiveTopology::TriangleList) *)
NewMesh == [indexed |-> FALSE, indices |-> << >>, attrs |-> << >>]

set_indices(mesh, ix) == [mesh EXCEPT !.indexed = TRUE, !.indices = ix]

insert_attribute(mesh, name, n) == [mesh EXCEPT !.attrs = (name :> n) @@ mesh.attrs]

(* Mesh::duplicate_vertices: every attribute becomes values[i] for each    *)
(* index i, which panics on an index past the attribute's end; the mesh is *)
(* no longer indexed.                                                      *)
duplicate_vertices(mesh) ==
    IF ~mesh.indexed THEN [panic |-> FALSE, mesh |-> mesh]
    ELSE IF \E a \in DOMAIN mesh.attrs : \E i \in 1..Len(mesh.indices) :
                mesh.indices[i] >= mesh.attrs[a]
    THEN [panic |-> TRUE, mesh |-> mesh]
    ELSE [panic |-> FALSE,
          mesh |-> [indexed |-> FALSE, indices |-> << >>,
                    attrs |-> [a \in DOMAIN mesh.attrs |-> Len(mesh.indices)]]]

(* Mesh::compute_flat_normals: one normal per triangle, broadcast to its   *)
(* three vertices; asserts that the mesh is not indexed.                   *)
compute_flat_normals(mesh) ==
    IF mesh.indexed THEN [panic |-> TRUE, mesh |-> mesh]
    ELSE [panic |-> FALSE,
          mesh |-> insert_attribute(mesh, "NORMAL",
                                    3 * chunks_exact(mesh.attrs["POSITION"], 3))]

(* The tail shared by all three builds: scene.rs 173-186, loader.rs        *)
(* 208-221 and 297-310.                                                    *)
finish_mesh(ix, vertex_position, vertex_normal, vertex_texture) ==
    LET m0 == insert_attribute(set_indices(NewMesh, ix), "POSITION", vertex_position)
        m1 == IF vertex_texture # 0 THEN insert_attribute(m0, "UV_0", vertex_texture)
              ELSE m0
    IN  IF vertex_normal # 0
        THEN [panic |-> FALSE, mesh |-> insert_attribute(m1, "NORMAL", vertex_normal)]
        ELSE LET d == duplicate_vertices(m1)
             IN  IF d.panic THEN d ELSE compute_flat_normals(d.mesh)

(* One model's mesh: scene.rs 154-186, loader.rs 189-221. *)
model_mesh(model) ==
    finish_mesh(model.indices,
                chunks_exact(model.positions, 3),
                chunks_exact(model.normals, 3),
                chunks_exact(model.texcoords, 2))

vertex_count(mesh) == mesh.attrs["POSITION"]

-----------------------------------------------------------------------------
(* The inputs: what the decoder can hand to the loader.                    *)

SeqsUpTo(S, n) == UNION { [1..k -> S] : k \in 0..n }

PathPngA == << "a", ".", "p", "n", "g" >>

PathPngB == << "b", ".", "p", "n", "g" >>

PathXyz == << "c", ".", "x", "y", "z" >>

PathNoExt == << "M", "a", "t", "e", "r", "i", "a", "l", "0" >>

TexturePaths == { << >>, PathPngA, PathPngB, PathXyz, PathNoExt }

MatNames == { << "a" >>, << "b" >> }

ModelNames == { << "o" >>, << "p" >> }

(* tobj::Material: the fields the loaders read.  scene.rs never reads a    *)
(* name, so its inputs carry one fixed name.                               *)
RawMaterials(v) ==
    [name : IF v = "legacy" THEN MatNames ELSE { << "a" >> },
     diffuse_texture : TexturePaths,
     normal_texture : TexturePaths]

(* tobj::Mesh geometry with nv vertices: flat float arrays by length, the  *)
(* normals and texcoords either absent or one per vertex, and at most one  *)
(* triangle.                                                               *)
Shapes(nvs) ==
    UNION { [positions : {3 * nv}, normals : {0, 3 * nv}, texcoords : {0, 2 * nv},
             indices : { << >> } \cup [1..3 -> 0..(nv - 1)]] : nv \in nvs }

(* The scene builds are driven with one-vertex, one-triangle models that   *)
(* carry both optional attributes or neither.                              *)
SceneShapes ==
    { s \in Shapes({1}) : s.indices # << >> /\ (s.normals = 0 <=> s.texcoords = 0) }

(* tobj::Model; material_id -1 is None.  An index past the materials list  *)
(* is a value of the type and is included.  The mesh build reads neither   *)
(* the name nor the material index.                                        *)
RawModels(v) ==
    IF v = "mesh"
    THEN { [name |-> << "o" >>, material_id |-> -1, positions |-> s.positions,
            normals |-> s.normals, texcoords |-> s.texcoords, indices |-> s.indices] :
           s \in Shapes(1..MaxVerts) }
    ELSE { [name |-> n, material_id |-> m, positions |-> s.positions,
            normals |-> s.normals, texcoords |-> s.texcoords, indices |-> s.indices] :
           n \in (IF v = "legacy" THEN ModelNames ELSE { << "o" >> }),
           m \in -1..MaxMaterials, s \in SceneShapes }

Min(a, b) == IF a < b THEN a ELSE b

ModelLists(v) == SeqsUpTo(RawModels(v), MaxModels)

MaterialLists(v) == SeqsUpTo(RawMaterials(v), MaxMaterials)

(* The model lists that go with a given material list: the two lists hold  *)
(* at most MaxItems entries together.                                      *)
ModelListsWith(v, mats) == SeqsUpTo(RawModels(v), Min(MaxModels, MaxItems - Len(mats)))

-----------------------------------------------------------------------------
(* State helpers. *)

(* A log entry: the operation, the path or label it is about, the list     *)
(* position it is about, whether it succeeded, the handle it produced.     *)
Ev(e, a, i, ok) == [ev |-> e, arg |-> a, idx |-> i, ok |-> ok, h |-> NoHandle]

EvH(e, a, handle) == [ev |-> e, arg |-> a, idx |-> 0, ok |-> TRUE, h |-> handle]

NoErr == [kind |-> "None", detail |-> "None"]

Err(k, d) == [kind |-> k, detail |-> d]

NoAsset == [kind |-> "None", src |-> << >>, idx |-> 0, tex |-> << NoHandle, NoHandle >>,
            mesh |-> NewMesh, world |-> << >>]

ImageAsset(path) == [NoAsset EXCEPT !.kind = "Image", !.src = path]

MaterialAsset(i, m) ==
    [NoAsset EXCEPT !.kind = "Material", !.idx = i,
                    !.tex = << m.base_color_texture, m.normal_map_texture >>]

MeshAsset(i, mesh) == [NoAsset EXCEPT !.kind = "Mesh", !.idx = i, !.mesh = mesh]

SceneAsset(w) == [NoAsset EXCEPT !.kind = "Scene", !.world = w]

(* StandardMaterial { ..Default::default() }: no textures. *)
DefaultMaterial == [base_color_texture |-> NoHandle, normal_map_texture |-> NoHandle]

NoMerged == [indices |-> << >>, vertex_position |-> 0, vertex_normal |-> 0,
             vertex_texture |-> 0]

(* LoadContext::set_labeled_asset: insert (overwriting) and return the     *)
(* handle of the labelled path.                                            *)
set_labeled_asset(reg, label, asset) == (label :> asset) @@ reg

has_labeled_asset(reg, label) == label \in DOMAIN reg

Init ==
    /\ variant \in { "scene", "legacy", "mesh" }
    /\ pc = "Start"
    /\ models = << >>
    /\ materials = << >>
    /\ mat_idx = 1
    /\ slot = "diffuse"
    /\ material = DefaultMaterial
    /\ mat_handles = << >>
    /\ labeled_assets = << >>
    /\ world = << >>
    /\ model_idx = 1
    /\ mesh_handle = NoHandle
    /\ merged = NoMerged
    /\ default_asset = NoAsset
    /\ err = NoErr
    /\ log = << >>

-----------------------------------------------------------------------------
(* Control flow shared by the actions. *)

(* `?' on an Err: the load future returns it and nothing else changes. *)
Fail(e, evs) ==
    /\ pc' = "Failed"
    /\ err' = e
    /\ log' = log \o evs
    /\ UNCHANGED << variant, models, materials, mat_idx, slot, material, mat_handles,
                    labeled_assets, world, model_idx, mesh_handle, merged,
                    default_asset >>

(* Entry of `for model in models'. *)
ModelsPc(ms) == IF Len(ms) = 0 THEN "Finish" ELSE "BuildMesh"

(* Entry of `for mat in materials', and what follows it: scene.rs spawns   *)
(* the root after the loop (151-152), loader.rs before it (155-156).       *)
MaterialsPc(v, mats, ms, i) ==
    IF i <= Len(mats) THEN "MatTexture"
    ELSE IF v = "scene" THEN "SpawnRoot" ELSE ModelsPc(ms)

(* What follows `let materials = materials?'.  (DecodedPc_SkipMaterials is *)
(* the slip of going straight on to the scene.)                            *)
DecodedPc_SkipMaterials(v, mats, ms) == "SpawnRoot"

DecodedPc(v, mats, ms) == IF v = "legacy" THEN "SpawnRoot" ELSE MaterialsPc(v, mats, ms, 1)

Decoded(ms, mats, evs) ==
    /\ models' = ms
    /\ materials' = mats
    /\ pc' = DecodedPc(variant, mats, ms)
    /\ log' = log \o evs
    /\ UNCHANGED << variant, mat_idx, slot, material, mat_handles, labeled_assets,
                    world, model_idx, mesh_handle, merged, default_asset, err >>

-----------------------------------------------------------------------------
(* scene.rs load_obj_data 82-100 / loader.rs 139-152: tobj starts decoding *)
(* the OBJ bytes.  It stops on a syntax error, or reaches an mtllib        *)
(* directive and awaits the material loader, or finishes without one (the  *)
(* materials are then Ok(empty)).                                          *)
DecodeScene ==
    /\ pc = "Start"
    /\ variant # "mesh"
    /\ \E outcome \in { "syntax_error", "mtllib", "no_mtllib" } :
        CASE outcome = "syntax_error" ->
                Fail(Err("TobjError", "ParseError"), << Ev("obj_decode", << >>, 0, FALSE) >>)
          [] outcome = "mtllib" ->
                /\ pc' = "AwaitMtl"
                /\ UNCHANGED << variant, models, materials, mat_idx, slot, material,
                                mat_handles, labeled_assets, world, model_idx,
                                mesh_handle, merged, default_asset, err, log >>
          [] OTHER ->
                \E ms \in ModelLists(variant) :
                    Decoded(ms, << >>, << Ev("obj_decode", << >>, 0, TRUE) >>)

(* The error the material loader closure returns when asset_io.load_path   *)
(* fails: scene.rs 92-97, loader.rs 145-150 (map_or).  (MtlFetchError_Io   *)
(* is the closure passing the asset I/O error through instead.)            *)
MtlFetchError_Io == Err("AssetIOError", "None")

MtlFetchError == Err("TobjError", "OpenFileFailed")

(* MtlFetched_Swallow is the slip of dropping `materials?': a material     *)
(* library that could not be loaded counts as an empty one.                *)
MtlFetched_Swallow ==
    /\ pc = "AwaitMtl"
    /\ \E fetchOk \in BOOLEAN, parseOk \in BOOLEAN, objOk \in BOOLEAN :
        LET evs == << Ev("mtl_fetch", << >>, 0, fetchOk) >>
                   \o (IF fetchOk THEN << Ev("mtl_parse", << >>, 0, parseOk) >> ELSE << >>)
                   \o << Ev("obj_decode", << >>, 0, objOk) >>
        IN  IF ~objOk THEN Fail(Err("TobjError", "ParseError"), evs)
            ELSE IF ~fetchOk \/ ~parseOk
            THEN \E ms \in ModelLists(variant) : Decoded(ms, << >>, evs)
            ELSE \E mats \in MaterialLists(variant) :
                    \E ms \in ModelListsWith(variant, mats) : Decoded(ms, mats, evs)

(* The material loader closure completes (scene.rs 89-98), tobj finishes   *)
(* the OBJ and load_obj_scene unwraps both results: the outer `?' of       *)
(* scene.rs 126 / loader.rs 152 first, then `materials?' (127 / 154).      *)
MtlFetched ==
    /\ pc = "AwaitMtl"
    /\ \E fetchOk \in BOOLEAN, parseOk \in BOOLEAN, objOk \in BOOLEAN :
        LET evs == << Ev("mtl_fetch", << >>, 0, fetchOk) >>
                   \o (IF fetchOk THEN << Ev("mtl_parse", << >>, 0, parseOk) >> ELSE << >>)
                   \o << Ev("obj_decode", << >>, 0, objOk) >>
        IN  IF ~objOk THEN Fail(Err("TobjError", "ParseError"), evs)
            ELSE IF ~fetchOk THEN Fail(MtlFetchError, evs)
            ELSE IF ~parseOk THEN Fail(Err("TobjError", "MtlParseError"), evs)
            ELSE \E mats \in MaterialLists(variant) :
                    \E ms \in ModelListsWith(variant, mats) : Decoded(ms, mats, evs)

-----------------------------------------------------------------------------
(* Textures. *)

CurrentTexture ==
    IF slot = "diffuse" THEN materials[mat_idx].diffuse_texture
    ELSE materials[mat_idx].normal_texture

(* The label a texture is registered under: the path itself in scene.rs    *)
(* (113), "Texture" + path in loader.rs (171, 182).                        *)
TextureLabelOf(v, texture) == IF v = "scene" THEN texture ELSE texture_label(texture)

(* The texture slot is resolved to handle h: store it in the material      *)
(* under construction and move to the next slot or to the registration.    *)
SlotDone(h, reg, evs) ==
    /\ labeled_assets' = reg
    /\ log' = log \o evs
    /\ IF slot = "diffuse"
       THEN /\ material' = [material EXCEPT !.base_color_texture = h]
            /\ slot' = "normal"
            /\ pc' = "MatTexture"
       ELSE /\ material' = [material EXCEPT !.normal_map_texture = h]
            /\ slot' = "diffuse"
            /\ pc' = "MatRegister"
    /\ UNCHANGED << variant, models, materials, mat_idx, mat_handles, world, model_idx,
                    mesh_handle, merged, default_asset, err >>

(* scene.rs load_mat_texture 107-110: the lookup that short-cuts the load. *)
UsesExisting(v, reg, texture) == v = "scene" /\ has_labeled_asset(reg, texture)

(* load_texture_image up to its await: scene.rs 64-71, loader.rs 115-122.  *)
(* InvalidImageFile is returned exactly when Path::extension is None.      *)
(* (ExtensionCheck_Table is the check against the codec table done first.) *)
ExtensionCheck_Table(texture) ==
    extension(texture).has /\ extension(texture).ext \in KnownExtensions

ExtensionCheck(texture) == extension(texture).has

(* scene.rs load_mat_texture 102-119 with load_texture_image 59-71;        *)
(* loader.rs 163-169 / 174-180 with load_texture_image 110-122.            *)
LoadMatTexture ==
    /\ pc = "MatTexture"
    /\ LET texture == CurrentTexture
       IN  IF texture = << >>
           THEN SlotDone(NoHandle, labeled_assets, << >>)
           ELSE IF UsesExisting(variant, labeled_assets, texture)
           THEN SlotDone(path_handle(texture), labeled_assets,
                         << Ev("texture_lookup", texture, 0, TRUE),
                            EvH("resolved", texture, path_handle(texture)) >>)
           ELSE IF ~ExtensionCheck(texture)
           THEN Fail(Err("InvalidImageFile", "None"),
                     << Ev("ext_check", texture, 0, FALSE) >>)
           ELSE /\ pc' = "AwaitTexture"
                /\ log' = log \o << Ev("ext_check", texture, 0, TRUE) >>
                /\ UNCHANGED << variant, models, materials, mat_idx, slot, material,
                                mat_handles, labeled_assets, world, model_idx,
                                mesh_handle, merged, default_asset, err >>

(* Image::from_buffer with ImageType::Extension: an extension that names   *)
(* no codec is an error, and so are bytes the codec rejects.               *)
DecodeSucceeds(texture, bytesOk) == extension(texture).ext \in KnownExtensions /\ bytesOk

(* load_texture_image after its await and the registration that follows:   *)
(* scene.rs 71-79 and 113, loader.rs 122-130 and 170-172 / 181-183.        *)
TextureFetched ==
    /\ pc = "AwaitTexture"
    /\ \E fetchOk \in BOOLEAN, bytesOk \in BOOLEAN :
        LET texture == CurrentTexture
            label == TextureLabelOf(variant, texture)
        IN  IF ~fetchOk
            THEN Fail(Err("AssetIOError", "None"), << Ev("fetch", texture, 0, FALSE) >>)
            ELSE IF ~DecodeSucceeds(texture, bytesOk)
            THEN Fail(Err("TextureError", "None"),
                      << Ev("fetch", texture, 0, TRUE), Ev("decode", texture, 0, FALSE) >>)
            ELSE SlotDone(labeled_handle(label),
                          set_labeled_asset(labeled_assets, label, ImageAsset(texture)),
                          << Ev("fetch", texture, 0, TRUE), Ev("decode", texture, 0, TRUE),
                             Ev("register_image", label, 0, TRUE),
                             EvH("resolved", texture, labeled_handle(label)) >>)

(* The label a material is registered under: its position in scene.rs      *)
(* (148), its name in loader.rs (186).                                     *)
MaterialLabelOf(v, i, mats) ==
    IF v = "scene" THEN scene_material_label(i - 1)
    ELSE legacy_material_label(mats[i].name)

(* scene.rs 148, loader.rs 186: register the material and go round the     *)
(* loop.  Only scene.rs keeps the handle.                                  *)
RegisterMaterial ==
    /\ pc = "MatRegister"
    /\ LET label == MaterialLabelOf(variant, mat_idx, materials)
       IN  /\ labeled_assets' =
                 set_labeled_asset(labeled_assets, label, MaterialAsset(mat_idx - 1, material))
           /\ mat_handles' = IF variant = "scene"
                             THEN Append(mat_handles, labeled_handle(label))
                             ELSE mat_handles
           /\ log' = log \o << Ev("register_material", label, mat_idx - 1, TRUE) >>
    /\ mat_idx' = mat_idx + 1
    /\ material' = DefaultMaterial
    /\ pc' = MaterialsPc(variant, materials, models, mat_idx + 1)
    /\ UNCHANGED << variant, models, materials, slot, world, model_idx, mesh_handle,
                    merged, default_asset, err >>

-----------------------------------------------------------------------------
(* The scene. *)

Entity(b, mesh, mat) == [bundle |-> b, mesh |-> mesh, material |-> mat, children |-> << >>]

(* World::spawn: the new entity's id is its position. *)
spawn(w, e) == Append(w, e)

(* world.entity_mut(parent).push_children(&[child]) *)
push_children(w, parent, child) ==
    [w EXCEPT ![parent].children = Append(w[parent].children, child)]

(* The id of the root: the first entity spawned (scene.rs 152, loader.rs 156). *)
world_id == 1

(* scene.rs 151-152, loader.rs 155-156. *)
SpawnRoot ==
    /\ pc = "SpawnRoot"
    /\ world' = spawn(world, Entity("Spatial", NoHandle, NoHandle))
    /\ log' = log \o << Ev("spawn_root", << >>, 0, TRUE) >>
    /\ pc' = IF variant = "scene" THEN ModelsPc(models)
             ELSE MaterialsPc(variant, materials, models, 1)
    /\ UNCHANGED << variant, models, materials, mat_idx, slot, material, mat_handles,
                    labeled_assets, model_idx, mesh_handle, merged, default_asset, err >>

(* The label a model's mesh is registered under: its position in scene.rs  *)
(* (189), its name in loader.rs (224).                                     *)
MeshLabelOf(v, i, ms) ==
    IF v = "scene" THEN scene_mesh_label(i - 1) ELSE legacy_mesh_label(ms[i].name)

(* scene.rs 154-189, loader.rs 189-224: build the model's mesh and         *)
(* register it.                                                            *)
BuildMesh ==
    /\ pc = "BuildMesh"
    /\ LET built == model_mesh(models[model_idx])
           label == MeshLabelOf(variant, model_idx, models)
       IN  IF built.panic
           THEN /\ pc' = "Panicked"
                /\ UNCHANGED << labeled_assets, mesh_handle, log >>
           ELSE /\ pc' = "AttachChild"
                /\ labeled_assets' =
                      set_labeled_asset(labeled_assets, label,
                                        MeshAsset(model_idx - 1, built.mesh))
                /\ mesh_handle' = labeled_handle(label)
                /\ log' = log \o << Ev("build_mesh", << >>, model_idx - 1, TRUE),
                                    Ev("register_mesh", label, model_idx - 1, TRUE) >>
    /\ UNCHANGED << variant, models, materials, mat_idx, slot, material, mat_handles,
                    world, model_idx, merged, default_asset, err >>

(* The material of a model's child.  scene.rs 192-196 indexes mat_handles  *)
(* (a panic past its end); loader.rs 227-239 uses materials.get(id) and    *)
(* asks for the handle of the label made from the material's name.         *)
MaterialBinding(v, model, mats, handles) ==
    IF model.material_id = -1 THEN [panic |-> FALSE, handle |-> NoHandle]
    ELSE IF v = "scene"
    THEN IF model.material_id >= Len(handles)
         THEN [panic |-> TRUE, handle |-> NoHandle]
         ELSE [panic |-> FALSE, handle |-> handles[model.material_id + 1]]
    ELSE IF model.material_id >= Len(mats)
         THEN [panic |-> FALSE, handle |-> NoHandle]
         ELSE [panic |-> FALSE,
               handle |-> labeled_handle(
                              legacy_material_label(mats[model.material_id + 1].name))]

(* The entity spawned for a model and its attachment: scene.rs 192-208,    *)
(* loader.rs 227-251.  (Attach_UnderPrevious is the slip of parenting the  *)
(* new entity to the entity spawned before it instead of to the root.)     *)
Attach_UnderPrevious(w, mesh, mat) ==
    LET w1 == spawn(w, Entity("Pbr", mesh, mat))
    IN  push_children(w1, Len(w), Len(w1))

Attach(w, mesh, mat) ==
    LET w1 == spawn(w, Entity("Pbr", mesh, mat))
    IN  push_children(w1, world_id, Len(w1))

AttachChild ==
    /\ pc = "AttachChild"
    /\ LET b == MaterialBinding(variant, models[model_idx], materials, mat_handles)
       IN  IF b.panic
           THEN /\ pc' = "Panicked"
                /\ UNCHANGED << world, model_idx, log >>
           ELSE /\ world' = Attach(world, mesh_handle, b.handle)
                /\ model_idx' = model_idx + 1
                /\ pc' = IF model_idx + 1 <= Len(models) THEN "BuildMesh" ELSE "Finish"
                /\ log' = log \o << Ev("attach", << >>, model_idx - 1, TRUE) >>
    /\ UNCHANGED << variant, models, materials, mat_idx, slot, material, mat_handles,
                    labeled_assets, mesh_handle, merged, default_asset, err >>

(* Ok(Scene::new(world)) and load_obj's set_default_asset: scene.rs 211    *)
(* and 54-56, loader.rs 254 and 103-106.                                   *)
LoadObjScene ==
    /\ pc = "Finish"
    /\ default_asset' = SceneAsset(world)
    /\ log' = log \o << Ev("set_default", << >>, 0, TRUE) >>
    /\ pc' = "Done"
    /\ UNCHANGED << variant, models, materials, mat_idx, slot, material, mat_handles,
                    labeled_assets, world, model_idx, mesh_handle, merged, err >>

-----------------------------------------------------------------------------
(* The mesh build: loader.rs without the feature "scene". *)

(* loader.rs 259-262: tobj decodes with a material loader that always      *)
(* returns Err(OpenFileFailed).  `?' propagates the decode error only:     *)
(* obj.1, which holds the material loader's error, is never read.          *)
DecodeMesh ==
    /\ pc = "Start"
    /\ variant = "mesh"
    /\ \E objOk \in BOOLEAN, mtllib \in BOOLEAN :
        LET evs == (IF mtllib THEN << Ev("mtl_fetch", << >>, 0, FALSE) >> ELSE << >>)
                   \o << Ev("obj_decode", << >>, 0, objOk) >>
        IN  IF ~objOk THEN Fail(Err("TobjError", "ParseError"), evs)
            ELSE \E ms \in ModelLists(variant) :
                    /\ models' = ms
                    /\ pc' = IF Len(ms) = 0 THEN "MergeFinish" ELSE "Merge"
                    /\ log' = log \o evs
                    /\ UNCHANGED << variant, materials, mat_idx, slot, material,
                                    mat_handles, labeled_assets, world, model_idx,
                                    mesh_handle, merged, default_asset, err >>

(* One pass of `for model in obj.0': loader.rs 267-295. *)
merge_model(acc, model) ==
    LET index_offset == acc.vertex_position
    IN  [indices |-> acc.indices
                     \o [k \in 1..Len(model.indices) |-> model.indices[k] + index_offset],
         vertex_position |-> acc.vertex_position + chunks_exact(model.positions, 3),
         vertex_normal |-> acc.vertex_normal + chunks_exact(model.normals, 3),
         vertex_texture |-> acc.vertex_texture + chunks_exact(model.texcoords, 2)]

MergeModel ==
    /\ pc = "Merge"
    /\ merged' = merge_model(merged, models[model_idx])
    /\ model_idx' = model_idx + 1
    /\ pc' = IF model_idx + 1 <= Len(models) THEN "Merge" ELSE "MergeFinish"
    /\ log' = log \o << Ev("merge", << >>, model_idx - 1, TRUE) >>
    /\ UNCHANGED << variant, models, materials, mat_idx, slot, material, mat_handles,
                    labeled_assets, world, mesh_handle, default_asset, err >>

(* loader.rs 297-312 and load_obj 105: build the merged mesh and make it   *)
(* the default asset.                                                      *)
LoadObjMesh ==
    /\ pc = "MergeFinish"
    /\ LET built == finish_mesh(merged.indices, merged.vertex_position,
                                merged.vertex_normal, merged.vertex_texture)
       IN  IF built.panic
           THEN /\ pc' = "Panicked"
                /\ UNCHANGED << default_asset, log >>
           ELSE /\ pc' = "Done"
                /\ default_asset' = MeshAsset(0, built.mesh)
                /\ log' = log \o << Ev("build_mesh", << >>, 0, TRUE),
                                    Ev("set_default", << >>, 0, TRUE) >>
    /\ UNCHANGED << variant, models, materials, mat_idx, slot, material, mat_handles,
                    labeled_assets, world, model_idx, mesh_handle, merged, err >>

-----------------------------------------------------------------------------
Next ==
    \/ DecodeScene
    \/ MtlFetched
    \/ LoadMatTexture
    \/ TextureFetched
    \/ RegisterMaterial
    \/ SpawnRoot
    \/ BuildMesh
    \/ AttachChild
    \/ LoadObjScene
    \/ DecodeMesh
    \/ MergeModel
    \/ LoadObjMesh

Spec == Init /\ [][Next]_vars

-----------------------------------------------------------------------------
(* Vocabulary of the properties. *)

LogIdx == 1..Len(log)

Happened(e) == \E i \in LogIdx : log[i].ev = e

Failed(e) == \E i \in LogIdx : log[i].ev = e /\ ~log[i].ok

IsRegister(e) == e.ev \in { "register_image", "register_material", "register_mesh" }

AssetsOfKind(k) == { l \in DOMAIN labeled_assets : labeled_assets[l].kind = k }

SceneBuild == variant # "mesh"

(* The models whose child has been attached. *)
Attached == IF SceneBuild THEN 1..(model_idx - 1) ELSE {}

(* The entity spawned for the k-th model: the root is entity 1. *)
ChildOf(k) == world[k + 1]

OutOfRange(model) == model.material_id >= Len(materials)

InRange(model) == model.material_id >= 0 /\ model.material_id < Len(materials)

(* The materials loop has run to its end. *)
MaterialsResolved ==
    /\ SceneBuild
    /\ pc \in { "SpawnRoot", "BuildMesh", "AttachChild", "Finish", "Done", "Panicked" }
    /\ mat_idx > Len(materials)

-----------------------------------------------------------------------------
(* C2: a model whose material index is set but is at or past the end of    *)
(* the materials list still gets its child node, with the mesh handle set  *)
(* and no material handle, and the load is not aborted, wherever the model *)
(* stands in the list.                                                     *)
C2_OutOfRangeMaterialTolerated ==
    SceneBuild =>
        /\ \A k \in Attached :
              OutOfRange(models[k]) =>
                  ChildOf(k).mesh # NoHandle /\ ChildOf(k).material = NoHandle
        /\ pc = "Panicked" => ~OutOfRange(models[model_idx])

(* C3: within one load a texture path requested more than once resolves to *)
(* one handle, is fetched once and decoded once, and a request for a path  *)
(* whose label is already registered starts no fetch.                      *)
C3_TextureDeduplicated ==
    /\ \A i \in LogIdx, j \in LogIdx :
          (i < j /\ log[i].ev = log[j].ev /\ log[i].ev \in { "fetch", "decode" })
              => log[i].arg # log[j].arg
    /\ \A i \in LogIdx, j \in LogIdx :
          (log[i].ev = "resolved" /\ log[j].ev = "resolved" /\ log[i].arg = log[j].arg)
              => log[i].h = log[j].h
    /\ pc = "AwaitTexture" =>
          ~has_labeled_asset(labeled_assets, TextureLabelOf(variant, CurrentTexture))

(* C5: every mesh the loader emits, the per-model meshes of the scene      *)
(* builds and the merged mesh of the mesh build, has a normal buffer of    *)
(* length 0 or vertexCount, a UV buffer of length 0 or vertexCount, and    *)
(* every index below vertexCount.                                          *)
BufferInvariant(mesh) ==
    LET vc == vertex_count(mesh)
        len(a) == IF a \in DOMAIN mesh.attrs THEN mesh.attrs[a] ELSE 0
    IN  /\ len("NORMAL") \in { 0, vc }
        /\ len("UV_0") \in { 0, vc }
        /\ \A i \in 1..Len(mesh.indices) : mesh.indices[i] < vc

EmittedMeshes ==
    { labeled_assets[l].mesh : l \in AssetsOfKind("Mesh") }
        \cup (IF default_asset.kind = "Mesh" THEN { default_asset.mesh } ELSE {})

C5_MeshBuffersConsistent == \A m \in EmittedMeshes : BufferInvariant(m)

(* C6: once the M materials are resolved exactly M material assets are     *)
(* registered, whatever the materials' names, and every attached model     *)
(* with material index i holds a handle that resolves to material i.       *)
C6_MaterialLabelsByPosition ==
    MaterialsResolved =>
        /\ Cardinality(AssetsOfKind("Material")) = Len(materials)
        /\ \A k \in Attached :
              InRange(models[k]) =>
                  LET h == ChildOf(k).material
                  IN  /\ h.path = CtxPath
                      /\ has_labeled_asset(labeled_assets, h.label)
                      /\ labeled_assets[h.label].kind = "Material"
                      /\ labeled_assets[h.label].idx = models[k].material_id

(* C10: no label is registered twice within one load (so no registration   *)
(* overwrites an earlier asset and no two sub-assets share a label), and a *)
(* texture lookup by label only ever finds an image.                       *)
C10_LabelsUnique ==
    /\ \A i \in LogIdx, j \in LogIdx :
          (i < j /\ IsRegister(log[i]) /\ IsRegister(log[j])) => log[i].arg # log[j].arg
    /\ \A i \in LogIdx :
          log[i].ev = "texture_lookup" => labeled_assets[log[i].arg].kind = "Image"

-----------------------------------------------------------------------------
-----------------------------------------------------------------------------
(* Failures. *)

AnyFailure == \E i \in LogIdx : ~log[i].ok

FirstFailure == CHOOSE i \in LogIdx : ~log[i].ok /\ \A j \in 1..(i - 1) : log[j].ok

(* The error each failing operation produces. *)
ErrOf(e) ==
    CASE e.ev = "obj_decode" -> Err("TobjError", "ParseError")
      [] e.ev = "mtl_fetch" -> MtlFetchError
      [] e.ev = "mtl_parse" -> Err("TobjError", "MtlParseError")
      [] e.ev = "ext_check" -> Err("InvalidImageFile", "None")
      [] e.ev = "fetch" -> Err("AssetIOError", "None")
      [] e.ev = "decode" -> Err("TextureError", "None")
      [] OTHER -> NoErr

NothingEmitted == default_asset = NoAsset /\ AssetsOfKind("Mesh") = {}

(* After the first failure nothing runs, except that the decoder, which    *)
(* the material loader's failure does not stop, finishes the OBJ.          *)
NothingAfter(i) == \A j \in LogIdx : j > i => log[j].ev = "obj_decode"

-----------------------------------------------------------------------------
-----------------------------------------------------------------------------
(* Texture requests. *)

BadExtension(t) == ~extension(t).has \/ extension(t).ext \notin KnownExtensions

IsRequest(e) == e.ev \in { "ext_check", "texture_lookup" }

TextureOf(k, sl) ==
    IF sl = "diffuse" THEN materials[k].diffuse_texture ELSE materials[k].normal_texture

(* The texture slots the materials loop has reached so far. *)
Reached(k, sl) ==
    \/ k < mat_idx
    \/ /\ k = mat_idx
       /\ \/ pc = "MatRegister"
          \/ sl = "diffuse" /\ slot = "normal"
          \/ pc \in { "AwaitTexture", "Failed" } /\ sl = slot

ReachedRequests ==
    { ks \in (1..Len(materials)) \X { "diffuse", "normal" } :
        Reached(ks[1], ks[2]) /\ TextureOf(ks[1], ks[2]) # << >> }

(* C7 as stated: every non-empty texture path with no extension, or with   *)
(* an extension outside the codec table, makes the texture loader fail     *)
(* with InvalidImageFile.                                                  *)
C7_Original ==
    \A i \in LogIdx :
        (IsRequest(log[i]) /\ BadExtension(log[i].arg))
            => pc = "Failed" /\ err.kind = "InvalidImageFile"

(* C7 amended: load_texture_image fails with InvalidImageFile exactly when *)
(* the path has no extension, before any fetch.  A path with an extension  *)
(* outside the codec table is fetched first: the load fails with           *)
(* AssetIOError when the fetch fails and with TextureError when it         *)
(* succeeds.  load_texture_image is called for every non-empty texture,    *)
(* except in scene.rs for a string that is already a registered label,     *)
(* which resolves without any check.                                       *)
C7_ExtensionErrors ==
    /\ Cardinality(ReachedRequests) = Cardinality({ i \in LogIdx : IsRequest(log[i]) })
    /\ \A i \in LogIdx :
          log[i].ev = "texture_lookup" =>
              variant = "scene" /\ has_labeled_asset(labeled_assets, log[i].arg)
    /\ \A i \in LogIdx :
          log[i].ev = "ext_check" =>
              LET t == log[i].arg
              IN  /\ log[i].ok <=> extension(t).has
                  /\ ~log[i].ok =>
                        /\ i = Len(log)
                        /\ pc = "Failed" /\ err.kind = "InvalidImageFile"
                        /\ \A j \in LogIdx : log[j].ev = "fetch" => log[j].arg # t
                  /\ (log[i].ok /\ BadExtension(t)) =>
                        \/ i = Len(log) /\ pc = "AwaitTexture"
                        \/ /\ Len(log) = i + 1
                           /\ log[i + 1] = Ev("fetch", t, 0, FALSE)
                           /\ pc = "Failed" /\ err.kind = "AssetIOError"
                        \/ /\ Len(log) = i + 2
                           /\ log[i + 1] = Ev("fetch", t, 0, TRUE)
                           /\ log[i + 2] = Ev("decode", t, 0, FALSE)
                           /\ pc = "Failed" /\ err.kind = "TextureError"

(* The fetch of a texture with an unknown extension fails. *)
C7_Witness ==
    /\ pc = "Failed"
    /\ err.kind = "AssetIOError"
    /\ CurrentTexture = PathXyz
    /\ log[Len(log)] = Ev("fetch", PathXyz, 0, FALSE)

-----------------------------------------------------------------------------
(* Pipeline stages: 1 Decoding, 2 ResolvingMaterials, 3 BuildingMeshes,    *)
(* 4 AssemblingScene, 5 Done.  The creation of the root node is given no   *)
(* stage (0).                                                              *)
Stage(e) ==
    CASE e.ev \in { "obj_decode", "mtl_fetch", "mtl_parse" } -> 1
      [] e.ev \in { "texture_lookup", "resolved", "ext_check", "fetch", "decode",
                    "register_image", "register_material" } -> 2
      [] e.ev \in { "build_mesh", "register_mesh", "merge" } -> 3
      [] e.ev = "attach" -> 4
      [] e.ev = "set_default" -> 5
      [] OTHER -> 0

IsStaged(e) == Stage(e) # 0

(* The stages (or passes) of the staged entries of the log, in order. *)
StageLog == LET staged == SelectSeq(log, IsStaged)
            IN  [i \in 1..Len(staged) |-> Stage(staged[i])]

Ascending(q) == \A i \in 1..(Len(q) - 1) : q[i] <= q[i + 1]

Merged(q) == [i \in 1..Len(q) |-> IF q[i] = 4 THEN 3 ELSE q[i]]

(* The same with building and assembling taken as one pass over the models. *)
Pass(e) == IF Stage(e) = 4 THEN 3 ELSE Stage(e)

Terminal == pc \in { "Done", "Failed" } => ~ENABLED Next

EventsBefore(i, e) == { log[j].idx : j \in { j \in 1..(i - 1) : log[j].ev = e } }

Count(e) == Cardinality({ i \in LogIdx : log[i].ev = e })

(* C9 as stated: the stages are passed in order, none re-entered once a    *)
(* later one has begun; Done and Failed are terminal; the default asset is *)
(* set last.                                                               *)
C9_Original ==
    /\ Ascending(StageLog)
    /\ Terminal
    /\ \A i \in LogIdx : log[i].ev = "set_default" => i = Len(log)

(* C9 amended: Decoding, then ResolvingMaterials, then one pass over the   *)
(* models, then Done, none re-entered.  Within the pass building and       *)
(* assembling alternate: model i's mesh is built and registered, then its  *)
(* child attached, before model i+1's mesh is built.  The root is created  *)
(* once, before the pass (in loader.rs before the materials are resolved,  *)
(* in scene.rs after).  So the material-library fetch precedes every       *)
(* texture fetch, every texture fetch and material registration precedes   *)
(* every mesh, and the default asset is set last, when every material and  *)
(* every mesh is registered.  Done and Failed are terminal.                *)
C9_PipelineOrder ==
    /\ Ascending(Merged(StageLog))
    /\ \A i \in LogIdx :
          /\ (SceneBuild /\ log[i].ev = "build_mesh") =>
                /\ EventsBefore(i, "attach") = 0..(log[i].idx - 1)
                /\ EventsBefore(i, "build_mesh") = 0..(log[i].idx - 1)
                /\ i < Len(log) /\ log[i + 1].ev = "register_mesh"
          /\ log[i].ev = "attach" =>
                /\ EventsBefore(i, "build_mesh") = 0..log[i].idx
                /\ EventsBefore(i, "attach") = 0..(log[i].idx - 1)
                /\ Count("spawn_root") = 1
          /\ log[i].ev = "spawn_root" =>
                /\ \A j \in 1..(i - 1) :
                      Pass(log[j]) <= (IF variant = "scene" THEN 2 ELSE 1)
                /\ \A j \in (i + 1)..Len(log) :
                      Pass(log[j]) >= (IF variant = "scene" THEN 3 ELSE 2)
          /\ log[i].ev = "set_default" => i = Len(log) /\ pc = "Done"
    /\ Count("spawn_root") <= 1
    /\ pc = "AwaitMtl" => log = << >>
    /\ pc = "AwaitTexture" => Pass(log[Len(log)]) = 2
    /\ pc = "Done" =>
          /\ Count("set_default") = 1
          /\ SceneBuild =>
                /\ Count("register_material") = Len(materials)
                /\ Count("register_mesh") = Len(models)
                /\ Count("attach") = Len(models)
          /\ ~SceneBuild => Count("merge") = Len(models)
    /\ Terminal

(* scene.rs finishes a load of two models and a fetched texture. *)
C9_Witness ==
    /\ variant = "scene"
    /\ pc = "Done"
    /\ Len(models) = 2
    /\ Happened("mtl_fetch")
    /\ Happened("fetch")

=============================================================================
